---- MODULE Spec2Model ----
(***************************************************************************)
(* Model of zeppelin_pyspark.py: the statement loop (lines 265-313) that   *)
(* fetches a batch from the host, filters its lines, parses it, executes   *)
(* the head units in exec mode and the last unit in single mode in the     *)
(* module's global namespace, and reports one outcome; and the completion  *)
(* engine PySparkCompletion (lines 161-209).                               *)
(*                                                                         *)
(* The loop runs at module level, so exec(code) runs in globals(): the     *)
(* loop's own variables (req, stmts, s, code, to_run_single, ...) live in  *)
(* the same namespace as the names bound by executed units.             *)
(*                                                                         *)
(* Python source text is abstracted to a small fragment: a line is an      *)
(* indentation level and a body; a body is blank, a comment, a simple      *)
(* statement, or the header of a compound statement whose block is the     *)
(* indented lines that follow it.  Executed units terminate, and they do   *)
(* not rebind the session objects the loop only reads (intp, sc, ast,      *)
(* traceback, sys, output).                                                *)
(***************************************************************************)
EXTENDS Integers, Sequences, FiniteSets, TLC

\* ------------------------------------------------------------------ bounds
MaxLines == 2
MaxBatches == 2

\* ------------------------------------------------------------------ values
\* Every value of the namespace is a record [k, n]: k is its kind, n its
\* payload (an integer's value, or the number of the batch during which the
\* loop created the object).
Unbound == [k |-> "unbound", n |-> 0]
NoneV == [k |-> "none", n |-> 0]
IntV(i) == [k |-> "int", n |-> i]
EmptyList == [k |-> "list", n |-> 0]
CoreObj(b) == [k |-> "core", n |-> b]

\* Names the loop itself assigns (lines 266-308).
LoopNames == {"req", "stmts", "jobGroup", "final_code", "s", "s_stripped",
              "code", "to_run_exec", "to_run_single", "node", "mod",
              "excInnerError", "innerErrorStart"}

\* Names bound before the loop starts (lines 262; module attributes).
PreNames == {"completion", "__name__"}

\* Names only executed units bind.
UserNames == {"x"}

Names == LoopNames \cup PreNames \cup UserNames

\* ------------------------------------------------------------------- lines
BlankBody == ""
CommentBody == "# note"
IfHeader == "if True:"
AssignX == "x = 1"
AssignS == "s = 1"
AssignCode == "code = 1"
AssignTail == "to_run_single = []"
ExprX == "x"
SayHi == "print('hi')"
RaiseLocal == "raise ValueError()"
HostCall == "sc.textFile('none').count()"
CompletionCall == "completion.getCompletion(None)"

SimpleBodies == {AssignX, AssignS, AssignCode, AssignTail, ExprX, SayHi,
                 RaiseLocal, HostCall, CompletionCall}

Line(i, b) == [indent |-> i, body |-> b]

\* The lines a batch is drawn from.
LineSet == {Line(0, BlankBody), Line(1, CommentBody), Line(0, IfHeader),
            Line(1, ExprX)}
           \cup {Line(0, b) : b \in SimpleBodies}

JobGroups == {"job"}

\* str.strip() (line 277): the line without its surrounding whitespace.
Strip(l) == [l EXCEPT !.indent = 0]

\* len(s_stripped) == 0 or s_stripped.startswith("#") (line 278).
IsSkipped(l) == Strip(l).body = BlankBody \/ Strip(l).body = CommentBody

\* A filter loop that keeps the stripped lines.
RECURSIVE FinalCodeMutant(_)
FinalCodeMutant(stmts) ==
  IF stmts = << >> THEN << >>
  ELSE IF IsSkipped(Head(stmts)) THEN FinalCodeMutant(Tail(stmts))
       ELSE << Strip(Head(stmts)) >> \o FinalCodeMutant(Tail(stmts))

\* The filter loop of lines 270-281: final_code keeps the original lines.
RECURSIVE FinalCode(_)
FinalCode(stmts) ==
  IF stmts = << >> THEN << >>
  ELSE IF IsSkipped(Head(stmts)) THEN FinalCode(Tail(stmts))
       ELSE << Head(stmts) >> \o FinalCode(Tail(stmts))

\* ------------------------------------------------------------------- parse
\* A unit is a top-level statement: a simple statement, or a compound
\* statement with the statements of its block.
Unit(c, b) == [compound |-> c, body |-> b]

ParseOk(us) == [ok |-> TRUE, units |-> us]
ParseError == [ok |-> FALSE, units |-> << >>]

\* compile(text, '<stdin>', 'exec', ast.PyCF_ONLY_AST, 1) (line 287) of the
\* joined lines: open is TRUE while the last unit is a compound statement
\* that still accepts block lines.
RECURSIVE ParseFrom(_, _, _)
ParseFrom(lines, units, open) ==
  IF lines = << >>
  THEN IF open /\ units[Len(units)].body = << >> THEN ParseError
       ELSE ParseOk(units)
  ELSE LET l == Head(lines)
           rest == Tail(lines)
           n == Len(units)
       IN IF l.body = BlankBody \/ l.body = CommentBody
          THEN ParseFrom(rest, units, open)
          ELSE IF l.indent > 0
          THEN IF open /\ l.body # IfHeader
               THEN ParseFrom(rest,
                      [units EXCEPT ![n].body = Append(@, l.body)], TRUE)
               ELSE ParseError
          ELSE IF open /\ units[n].body = << >>
          THEN ParseError
          ELSE IF l.body = IfHeader
          THEN ParseFrom(rest, Append(units, Unit(TRUE, << >>)), TRUE)
          ELSE ParseFrom(rest, Append(units, Unit(FALSE, << l.body >>)), FALSE)

Compile(final_code) == ParseFrom(final_code, << >>, FALSE)

\* -------------------------------------------------------------- completion
\* The global names the completion engine is exercised with.
CompletionNames == {"alpha", "_hidden", "obj", "objectDefList", "__name__",
                    "items"}

\* The number of '_' characters a name starts with.
LeadingUnderscores(n) ==
  IF n \in {"__name__", "__init__", "__abs__", "__len__", "__class__",
            "__bool__"} THEN 2
  ELSE IF n = "_hidden" THEN 1
  ELSE 0

\* A filter that matches "^_.*" instead.
IsInternalMutant(n) == LeadingUnderscores(n) >= 1

\* re.match("^__.*", x) (line 208).
IsInternal(n) == LeadingUnderscores(n) >= 2

\* dir(value): the attribute names of a value, by its kind.
Dir(v) ==
  CASE v.k = "int" -> {"real", "__abs__"}
    [] v.k = "list" -> {"append", "__len__"}
    [] v.k = "inst" -> {"method1", "__init__"}
    [] v.k = "str" -> {"strip", "__len__"}
    [] v.k = "engine" -> {"getCompletion", "__init__"}
    [] v.k = "builtin" -> {"__class__"}
    [] v.k = "none" -> {"__bool__"}
    [] OTHER -> {"__class__"}

\* A completion prefix: None, or a text given as its tokens (a name or a
\* punctuation character each).
NoText == [isNone |-> TRUE, toks |-> << >>]
Text(toks) == [isNone |-> FALSE, toks |-> toks]

\* The names bound in a namespace g (globals().keys(), line 168).
BoundNames(g) == {n \in DOMAIN g : g[n].k # "unbound"}

\* getGlobalCompletion (lines 165-173).
getGlobalCompletion(g) == BoundNames(g)

\* Name lookup of the exec of line 185: the locals of getMethodCompletion
\* (self, text_value), then the globals, then the builtins.
Lookup(name, g, text_value) ==
  IF name = "self" THEN [k |-> "engine", n |-> 0]
  ELSE IF name = "text_value" THEN [k |-> "str", n |-> 0]
  ELSE IF name \in BoundNames(g) THEN g[name]
  ELSE IF name = "len" THEN [k |-> "builtin", n |-> 0]
  ELSE Unbound

\* Tokens of a prefix that are calls.
PopCall == "pop()"
GlobalsCall == "globals()"
PopAlphaCall == "pop('alpha')"

\* The exec of line 185, "objectDefList = dir(<target>)" with globals() and
\* the method's locals: ok tells whether it ran without raising, names is
\* the list left in execResult['objectDefList'], g the globals afterwards.
\* An empty target makes it dir(), the names of the exec's locals; a target
\* that calls a method runs the call.
ExecFailed(g) == [ok |-> FALSE, names |-> {}, g |-> g]
ExecDir(g, text_value, completion_target) ==
  IF completion_target = << >>
  THEN [ok |-> TRUE, names |-> {"self", "text_value"}, g |-> g]
  ELSE IF Len(completion_target) = 1
  THEN IF completion_target[1] \notin {".", "(", PopCall, GlobalsCall,
                                        PopAlphaCall}
          /\ Lookup(completion_target[1], g, text_value).k # "unbound"
       THEN [ok |-> TRUE,
             names |-> Dir(Lookup(completion_target[1], g, text_value)),
             g |-> g]
       ELSE ExecFailed(g)
  ELSE IF completion_target = << "items", ".", PopCall >>
  THEN IF "items" \in BoundNames(g) /\ g["items"].k = "list"
          /\ g["items"].n > 0
       THEN [ok |-> TRUE, names |-> Dir(IntV(1)),
             g |-> [g EXCEPT !["items"].n = @ - 1]]
       ELSE ExecFailed(g)
  ELSE IF completion_target = << GlobalsCall, ".", PopAlphaCall >>
  THEN IF "alpha" \in BoundNames(g)
       THEN [ok |-> TRUE, names |-> Dir(g["alpha"]),
             g |-> [g EXCEPT !["alpha"] = Unbound]]
       ELSE ExecFailed(g)
  ELSE ExecFailed(g)

\* completion_target of lines 179-184: the prefix less one trailing '.'.
CompletionTarget(toks) ==
  IF toks[Len(toks)] = "." THEN SubSeq(toks, 1, Len(toks) - 1) ELSE toks

\* getMethodCompletion (lines 175-189): [ok |-> FALSE] stands for the None
\* it returns when there is no prefix or the exec raises.
NoAttrs == [ok |-> FALSE, names |-> {}]
getMethodCompletion(g, text_value) ==
  IF text_value.isNone THEN NoAttrs
  ELSE IF Len(text_value.toks) <= 0 THEN NoAttrs
  ELSE LET r == ExecDir(g, text_value, CompletionTarget(text_value.toks))
       IN IF r.ok THEN [ok |-> TRUE, names |-> r.names] ELSE NoAttrs

\* globals() after getCompletion(text_value): only the exec of line 185
\* runs code that can touch it.
GlobalsAfter(g, text_value) ==
  IF text_value.isNone \/ Len(text_value.toks) <= 0 THEN g
  ELSE ExecDir(g, text_value, CompletionTarget(text_value.toks)).g

\* What setStatementsFinished receives: a plain text (its tokens) or the
\* JSON encoding of a list of names, and the isError flag.
Plain(text, e) == [json |-> FALSE, names |-> {}, text |-> text, isError |-> e]
Json(names, e) == [json |-> TRUE, names |-> names, text |-> << >>, isError |-> e]

\* A getCompletion that reports a failed attribute lookup as an error.
getCompletionMutant(g, text_value) ==
  LET globalCompletionList == getGlobalCompletion(g)
      objectCompletionList ==
        IF text_value.isNone THEN NoAttrs
        ELSE getMethodCompletion(g, text_value)
      completionList ==
        globalCompletionList
          \cup (IF objectCompletionList.ok THEN objectCompletionList.names
                ELSE {})
  IN IF ~text_value.isNone /\ ~objectCompletionList.ok
     THEN Plain(<< "error" >>, TRUE)
     ELSE IF Cardinality(completionList) <= 0
     THEN Plain(<< >>, FALSE)
     ELSE Json({x \in completionList : ~IsInternal(x)}, FALSE)

\* getCompletion (lines 192-209): the report it sends to the host.
getCompletion(g, text_value) ==
  LET globalCompletionList == getGlobalCompletion(g)
      objectCompletionList ==
        IF text_value.isNone THEN NoAttrs
        ELSE getMethodCompletion(g, text_value)
      completionList ==
        globalCompletionList
          \cup (IF objectCompletionList.ok THEN objectCompletionList.names
                ELSE {})
  IN IF Cardinality(completionList) <= 0
     THEN Plain(<< >>, FALSE)
     ELSE Json({x \in completionList : ~IsInternal(x)}, FALSE)

\* -------------------------------------------------------------- exceptions
NoExc == [kind |-> "none", msg |-> << >>]
Exc(kind, msg) == [kind |-> kind, msg |-> msg]

\* The line of a formatted traceback that names the exception.
ExcLine(kind) ==
  CASE kind = "Py4JJavaError" -> "Py4JJavaError:"
    [] kind = "SyntaxError" -> "SyntaxError:"
    [] kind = "NameError" -> "NameError:"
    [] kind = "ValueError" -> "ValueError:"
    [] kind = "TypeError" -> "TypeError:"
    [] kind = "AttributeError" -> "AttributeError:"
    [] OTHER -> "Exception:"

\* traceback.format_exc(): the header, the local frames, then the exception
\* line and its message.
FormatExc(e) ==
  << "Traceback (most recent call last):", "  File \"<stdin>\"" >>
    \o << ExcLine(e.kind) >> \o e.msg

\* What a failing host call raises.
HostError == Exc("Py4JJavaError", << "An error occurred while calling" >>)

\* except: raise Exception(traceback.format_exc()) (lines 300-301).
Wrapped(e) == Exc("Exception", FormatExc(e))

\* str.find on the tokens of a text: the 0-based position of the first
\* occurrence of tok, or -1.
RECURSIVE FindFrom(_, _, _)
FindFrom(text, tok, i) ==
  IF i > Len(text) THEN -1
  ELSE IF text[i] = tok THEN i - 1
  ELSE FindFrom(text, tok, i + 1)

Find(text, tok) == FindFrom(text, tok, 1)

\* The diagnostic of the Py4JJavaError handler (lines 305-309).
Py4JDiagnostic(e) ==
  LET excInnerError == FormatExc(e)
      innerErrorStart == Find(excInnerError, "Py4JJavaError:")
  IN (IF innerErrorStart > -1
      THEN SubSeq(excInnerError, innerErrorStart + 1, Len(excInnerError))
      ELSE excInnerError) \o << "str(sys.exc_info())" >>

\* --------------------------------------------------------------- execution
\* The state a unit runs in: the namespace, the record of the last binding
\* made by a unit, the chunks passed to the host, the chunks written to
\* sys.stdout, the reports sent to the host, the number of the batch, and
\* the exception raised, if any.
ExecState(ns0, lb0, out0, written0, reports0, b0) ==
  [ns |-> ns0, lb |-> lb0, out |-> out0, written |-> written0,
   reports |-> reports0, b |-> b0, exc |-> NoExc]

Bind(st, name, v) ==
  [st EXCEPT !.ns = [@ EXCEPT ![name] = v],
             !.lb = [@ EXCEPT ![name] = [v |-> v, b |-> st.b]]]

Raise(st, e) == [st EXCEPT !.exc = e]

\* A write that keeps the message for reset() instead of forwarding it.
LoggerWriteMutant(st, message) == st

\* Logger.write (lines 46-47): the message goes to the host at once.
LoggerWrite(st, message) == [st EXCEPT !.out = Append(@, message)]

\* sys.stdout.write of executed code; sys.stdout is the Logger (lines
\* 212-214).
StdoutWrite(st, message) ==
  LoggerWrite([st EXCEPT !.written = Append(@, message)], message)

\* sys.displayhook of an expression statement compiled in 'single' mode:
\* the repr of a value that is not None, then a newline.
Echo(st, v) ==
  IF v.k = "none" THEN st
  ELSE StdoutWrite(StdoutWrite(st, [k |-> "repr", v |-> v]),
                   [k |-> "nl", v |-> NoneV])

\* print('hi'): the text, then a newline, each in a write of its own.
WriteHi(st) ==
  StdoutWrite(StdoutWrite(st, [k |-> "text", v |-> [k |-> "str", n |-> 0]]),
              [k |-> "nl", v |-> NoneV])

\* An expression statement that echoes its value in either mode.
ExprStmtMutant(st, v, interactive) == Echo(st, v)

\* An expression statement: in 'exec' mode its value is dropped.
ExprStmt(st, v, interactive) == IF interactive THEN Echo(st, v) ELSE st

\* One simple statement, executed in the global namespace.
ExecStmt(st, stmt, interactive) ==
  CASE stmt = AssignX -> Bind(st, "x", IntV(1))
    [] stmt = AssignS -> Bind(st, "s", IntV(1))
    [] stmt = AssignCode -> Bind(st, "code", IntV(1))
    [] stmt = AssignTail -> Bind(st, "to_run_single", EmptyList)
    [] stmt = ExprX ->
         IF st.ns["x"].k = "unbound" THEN Raise(st, Exc("NameError", << >>))
         ELSE ExprStmt(st, st.ns["x"], interactive)
    [] stmt = SayHi -> WriteHi(st)
    [] stmt = RaiseLocal -> Raise(st, Exc("ValueError", << >>))
    [] stmt = HostCall -> Raise(st, HostError)
    [] stmt = CompletionCall ->
         ExprStmt([st EXCEPT !.reports =
                     Append(@, getCompletion(st.ns, NoText))],
                  NoneV, interactive)
    [] OTHER -> Raise(st, Exc("SyntaxError", << >>))

\* exec(code) of one unit (lines 294 and 299): its statements in order,
\* up to the first that raises.
RECURSIVE ExecBody(_, _, _)
ExecBody(st, stmts, interactive) ==
  IF stmts = << >> \/ st.exc.kind # "none" THEN st
  ELSE ExecBody(ExecStmt(st, Head(stmts), interactive), Tail(stmts),
                interactive)

ExecUnit(st, unit, interactive) == ExecBody(st, unit.body, interactive)

\* ------------------------------------------------------------------- state
VARIABLES
  pc,             \* the position of the main loop
  batchNo,        \* the number of batches fetched so far
  req,            \* the request returned by intp.getStatements()
  final_code,     \* the list final_code of the current batch
  body,           \* code.body of the current batch
  headIter,       \* the units for node in to_run_exec has yet to visit
  tailIter,       \* the units for node in to_run_single has yet to visit
  ns,             \* globals(): the execution namespace
  exc,            \* the exception being propagated
  out,            \* chunks passed to intp.appendOutput since the fetch
  written,        \* history: chunks written to sys.stdout since the fetch
  reports,        \* calls of intp.setStatementsFinished since the fetch
  jobGroupCalls,  \* calls of sc.setJobGroup since the fetch
  lastBound,      \* history: per name, the value last bound by a unit and
                  \* the batch of that unit
  nsAtFetch,      \* history: the namespace when the batch was fetched
  trace,          \* history: the steps taken since the fetch
  raised,         \* history: the first exception of the batch and its step
  loopOutcome,    \* history: the outcomes the loop itself reported
  cg,             \* completion: globals() of the request
  cgBefore,       \* history: globals() when the request arrived
  cText,          \* completion: the prefix of the request
  cResult,        \* completion: the report sent for the request
  cpc             \* completion: "idle" or "done"

loopVars == << pc, batchNo, req, final_code, body, headIter, tailIter, ns,
               exc, out, written, reports, jobGroupCalls, lastBound, nsAtFetch,
               trace, raised, loopOutcome >>
complVars == << cg, cgBefore, cText, cResult, cpc >>
vars == << loopVars, complVars >>

\* The step at which the batch first raised: at is "fields", "jobgroup",
\* "compile", "unit" or "iter"; idx is the 1-based index of the unit.
NoRaise == [kind |-> "none", at |-> "", idx |-> 0]
Raised(kind, at, idx) == [kind |-> kind, at |-> at, idx |-> idx]
Step(op, idx) == [op |-> op, idx |-> idx]

NoRequest == [null |-> TRUE, statements |-> << >>, jobGroup |-> ""]

\* The batches the host may send: 1..MaxLines lines ("".split("\n") has one
\* element), or a request whose statements() is null.
Batches == UNION {[1..n -> LineSet] : n \in 1..MaxLines}
Requests ==
  {[null |-> FALSE, statements |-> l, jobGroup |-> j] :
      l \in Batches, j \in JobGroups}
  \cup {[null |-> TRUE, statements |-> << >>, jobGroup |-> j] : j \in JobGroups}

InitNs == [n \in Names |-> IF n \in PreNames THEN CoreObj(0) ELSE Unbound]

InitLoop ==
  /\ pc = "fetch"
  /\ batchNo = 0
  /\ req = NoRequest
  /\ final_code = << >>
  /\ body = << >>
  /\ headIter = << >>
  /\ tailIter = << >>
  /\ ns = InitNs
  /\ exc = NoExc
  /\ out = << >>
  /\ written = << >>
  /\ reports = << >>
  /\ jobGroupCalls = << >>
  /\ lastBound = [n \in Names |-> [v |-> Unbound, b |-> 0]]
  /\ nsAtFetch = InitNs
  /\ trace = << >>
  /\ raised = NoRaise
  /\ loopOutcome = << >>

InitCompl ==
  /\ cg = [n \in CompletionNames |-> Unbound]
  /\ cgBefore = cg
  /\ cText = NoText
  /\ cResult = Plain(<< >>, FALSE)
  /\ cpc = "idle"

Init == InitLoop /\ InitCompl

\* The loop rebinds one of its own variables to an object it just created.
CoreBind(g, names) == [n \in DOMAIN g |-> IF n \in names THEN CoreObj(batchNo) ELSE g[n]]

\* req = intp.getStatements() (line 266).
GetStatements ==
  /\ pc = "fetch"
  /\ batchNo < MaxBatches
  /\ \E r \in Requests : req' = r
  /\ batchNo' = batchNo + 1
  /\ ns' = [ns EXCEPT !["req"] = CoreObj(batchNo + 1)]
  /\ nsAtFetch' = ns
  /\ out' = << >>
  /\ written' = << >>
  /\ reports' = << >>
  /\ jobGroupCalls' = << >>
  /\ trace' = << >>
  /\ raised' = NoRaise
  /\ loopOutcome' = << >>
  /\ final_code' = << >>
  /\ body' = << >>
  /\ pc' = "split"
  /\ UNCHANGED << headIter, tailIter, exc, lastBound, complVars >>

\* A loop that goes from the filter loop straight to compile, without the
\* call of sc.setJobGroup.
SplitStatementsMutant ==
  /\ pc = "split"
  /\ IF req.null
     THEN /\ exc' = Exc("AttributeError", << >>)
          /\ raised' = Raised("AttributeError", "fields", 0)
          /\ pc' = "except"
          /\ UNCHANGED << ns, final_code >>
     ELSE /\ final_code' = FinalCode(req.statements)
          /\ ns' = CoreBind(ns, {"stmts", "jobGroup", "final_code", "s",
                                 "s_stripped"})
          /\ pc' = IF FinalCode(req.statements) # << >> THEN "compile"
                   ELSE "finish"
          /\ UNCHANGED << exc, raised >>
  /\ UNCHANGED << batchNo, req, body, headIter, tailIter, out, written, reports,
                  jobGroupCalls, lastBound, nsAtFetch, trace, loopOutcome,
                  complVars >>

\* Lines 268-283: the fields of the request and the filter loop.  A null
\* statements() makes .split raise AttributeError.
SplitStatements ==
  /\ pc = "split"
  /\ IF req.null
     THEN /\ exc' = Exc("AttributeError", << >>)
          /\ raised' = Raised("AttributeError", "fields", 0)
          /\ pc' = "except"
          /\ UNCHANGED << ns, final_code >>
     ELSE /\ final_code' = FinalCode(req.statements)
          /\ ns' = CoreBind(ns, {"stmts", "jobGroup", "final_code", "s",
                                 "s_stripped"})
          /\ pc' = IF FinalCode(req.statements) # << >> THEN "jobgroup"
                   ELSE "finish"
          /\ UNCHANGED << exc, raised >>
  /\ UNCHANGED << batchNo, req, body, headIter, tailIter, out, written, reports,
                  jobGroupCalls, lastBound, nsAtFetch, trace, loopOutcome,
                  complVars >>

\* sc.setJobGroup(jobGroup, "Zeppelin") (line 286); the host accepts it.
SetJobGroup ==
  /\ pc = "jobgroup"
  /\ jobGroupCalls' =
       Append(jobGroupCalls, [group |-> req.jobGroup, ok |-> TRUE])
  /\ trace' = Append(trace, Step("jobgroup", 0))
  /\ pc' = "compile"
  /\ UNCHANGED << batchNo, req, final_code, body, headIter, tailIter, ns, exc,
                  out, written, reports, lastBound, nsAtFetch, raised, loopOutcome,
                  complVars >>

\* A rejected sc.setJobGroup whose error is swallowed: the loop goes on to
\* compile.
SetJobGroupRejectedMutant ==
  /\ pc = "jobgroup"
  /\ jobGroupCalls' =
       Append(jobGroupCalls, [group |-> req.jobGroup, ok |-> FALSE])
  /\ trace' = Append(trace, Step("jobgroup", 0))
  /\ pc' = "compile"
  /\ UNCHANGED << batchNo, req, final_code, body, headIter, tailIter, ns, exc,
                  out, written, reports, lastBound, nsAtFetch, raised,
                  loopOutcome, complVars >>

\* sc.setJobGroup(jobGroup, "Zeppelin") (line 286); the host rejects it and
\* the call raises Py4JJavaError.
SetJobGroupRejected ==
  /\ pc = "jobgroup"
  /\ jobGroupCalls' =
       Append(jobGroupCalls, [group |-> req.jobGroup, ok |-> FALSE])
  /\ trace' = Append(trace, Step("jobgroup", 0))
  /\ exc' = HostError
  /\ raised' = Raised("Py4JJavaError", "jobgroup", 0)
  /\ pc' = "except"
  /\ UNCHANGED << batchNo, req, final_code, body, headIter, tailIter, ns,
                  out, written, reports, lastBound, nsAtFetch, loopOutcome, complVars >>

\* Lines 287-288: parse the joined lines and split the units; the iterator
\* of the head loop is taken here.  A SyntaxError is raised outside the inner
\* try and leaves code unbound.
CompileStatements ==
  /\ pc = "compile"
  /\ trace' = Append(trace, Step("compile", 0))
  /\ LET r == Compile(final_code)
     IN IF r.ok
        THEN /\ body' = r.units
             /\ headIter' = SubSeq(r.units, 1, Len(r.units) - 1)
             /\ ns' = CoreBind(ns, {"code", "to_run_exec", "to_run_single"})
             /\ pc' = "head"
             /\ UNCHANGED << exc, raised >>
        ELSE /\ exc' = Exc("SyntaxError", << >>)
             /\ raised' = Raised("SyntaxError", "compile", 0)
             /\ pc' = "except"
             /\ UNCHANGED << body, headIter, ns >>
  /\ UNCHANGED << batchNo, req, final_code, tailIter, out, written, reports,
                  jobGroupCalls, lastBound, nsAtFetch, loopOutcome, complVars >>

\* The effect of running one unit: lines 292-294 (exec mode) or 297-299
\* (single mode).  node, mod and code are rebound before the exec; an
\* exception is re-raised wrapped by lines 300-301.
RunUnit(unit, idx, interactive) ==
  LET g == CoreBind(ns, {"node", "mod", "code"})
      st == ExecUnit(ExecState(g, lastBound, out, written, reports, batchNo), unit,
                     interactive)
  IN /\ ns' = st.ns
     /\ lastBound' = st.lb
     /\ out' = st.out
     /\ written' = st.written
     /\ reports' = st.reports
     /\ trace' = Append(trace,
                        Step(IF interactive THEN "single" ELSE "exec", idx))
     /\ IF st.exc.kind # "none"
        THEN /\ exc' = Wrapped(st.exc)
             /\ raised' = Raised(st.exc.kind, "unit", idx)
             /\ pc' = "except"
        ELSE /\ UNCHANGED << exc, raised, pc >>

\* One iteration of for node in to_run_exec (lines 291-294).
ExecHead ==
  /\ pc = "head"
  /\ headIter # << >>
  /\ RunUnit(Head(headIter), Len(body) - Len(headIter), FALSE)
  /\ headIter' = Tail(headIter)
  /\ UNCHANGED << batchNo, req, final_code, body, tailIter, jobGroupCalls,
                  nsAtFetch, loopOutcome, complVars >>

\* The head loop is exhausted and for node in to_run_single (line 296)
\* starts: it iterates over whatever to_run_single is bound to now, and
\* raises TypeError inside the inner try when that is not iterable.
StartTail ==
  /\ pc = "head"
  /\ headIter = << >>
  /\ LET v == ns["to_run_single"]
     IN IF v.k = "core"
        THEN /\ tailIter' = SubSeq(body, Len(body), Len(body))
             /\ pc' = "tail"
             /\ UNCHANGED << exc, raised >>
        ELSE IF v.k = "list"
        THEN /\ tailIter' = << >>
             /\ pc' = "tail"
             /\ UNCHANGED << exc, raised >>
        ELSE /\ exc' = Wrapped(Exc("TypeError", << >>))
             /\ raised' = Raised("TypeError", "iter", 0)
             /\ pc' = "except"
             /\ UNCHANGED tailIter
  /\ UNCHANGED << batchNo, req, final_code, body, headIter, ns, out, written, reports,
                  jobGroupCalls, lastBound, nsAtFetch, trace, loopOutcome,
                  complVars >>

\* One iteration of for node in to_run_single (lines 296-299).
ExecTail ==
  /\ pc = "tail"
  /\ tailIter # << >>
  /\ RunUnit(Head(tailIter), Len(body), TRUE)
  /\ tailIter' = Tail(tailIter)
  /\ UNCHANGED << batchNo, req, final_code, body, headIter, jobGroupCalls,
                  nsAtFetch, loopOutcome, complVars >>

\* The tail loop is exhausted: fall through to line 303.
EndTail ==
  /\ pc = "tail"
  /\ tailIter = << >>
  /\ pc' = "finish"
  /\ UNCHANGED << batchNo, req, final_code, body, headIter, tailIter, ns, exc,
                  out, written, reports, jobGroupCalls, lastBound, nsAtFetch, trace,
                  raised, loopOutcome, complVars >>

\* intp.setStatementsFinished("", False) (line 303).
ReportFinished ==
  /\ pc = "finish"
  /\ reports' = Append(reports, Plain(<< >>, FALSE))
  /\ loopOutcome' = Append(loopOutcome, Plain(<< >>, FALSE))
  /\ pc' = "reset"
  /\ trace' = Append(trace, Step("report", 0))
  /\ UNCHANGED << batchNo, req, final_code, body, headIter, tailIter, ns, exc,
                  out, written, jobGroupCalls, lastBound, nsAtFetch, raised,
                  complVars >>

\* A Py4JJavaError handler that reports the diagnostic without the error flag.
ExceptPy4JMutant ==
  /\ pc = "except"
  /\ exc.kind = "Py4JJavaError"
  /\ ns' = CoreBind(ns, {"excInnerError", "innerErrorStart"})
  /\ reports' = Append(reports, Plain(Py4JDiagnostic(exc), FALSE))
  /\ loopOutcome' = Append(loopOutcome, Plain(Py4JDiagnostic(exc), FALSE))
  /\ exc' = NoExc
  /\ pc' = "reset"
  /\ trace' = Append(trace, Step("report", 0))
  /\ UNCHANGED << batchNo, req, final_code, body, headIter, tailIter, out, written,
                  jobGroupCalls, lastBound, nsAtFetch, raised, complVars >>

\* except Py4JJavaError (lines 304-309).
ExceptPy4J ==
  /\ pc = "except"
  /\ exc.kind = "Py4JJavaError"
  /\ ns' = CoreBind(ns, {"excInnerError", "innerErrorStart"})
  /\ reports' = Append(reports, Plain(Py4JDiagnostic(exc), TRUE))
  /\ loopOutcome' = Append(loopOutcome, Plain(Py4JDiagnostic(exc), TRUE))
  /\ exc' = NoExc
  /\ pc' = "reset"
  /\ trace' = Append(trace, Step("report", 0))
  /\ UNCHANGED << batchNo, req, final_code, body, headIter, tailIter, out, written,
                  jobGroupCalls, lastBound, nsAtFetch, raised,
                  complVars >>

\* A catch-all handler that reports and lets the exception leave the loop.
ExceptOtherMutant ==
  /\ pc = "except"
  /\ exc.kind # "Py4JJavaError"
  /\ reports' = Append(reports, Plain(FormatExc(exc), TRUE))
  /\ loopOutcome' = Append(loopOutcome, Plain(FormatExc(exc), TRUE))
  /\ pc' = "exit"
  /\ trace' = Append(trace, Step("report", 0))
  /\ UNCHANGED << batchNo, req, final_code, body, headIter, tailIter, ns, exc,
                  out, written, jobGroupCalls, lastBound, nsAtFetch, raised,
                  complVars >>

\* except: (lines 310-311).
ExceptOther ==
  /\ pc = "except"
  /\ exc.kind # "Py4JJavaError"
  /\ reports' = Append(reports, Plain(FormatExc(exc), TRUE))
  /\ loopOutcome' = Append(loopOutcome, Plain(FormatExc(exc), TRUE))
  /\ exc' = NoExc
  /\ pc' = "reset"
  /\ trace' = Append(trace, Step("report", 0))
  /\ UNCHANGED << batchNo, req, final_code, body, headIter, tailIter, ns, out, written,
                  jobGroupCalls, lastBound, nsAtFetch, raised,
                  complVars >>

\* output.reset() (line 313), a no-op (lines 49-50), and back to line 265.
ResetOutput ==
  /\ pc = "reset"
  /\ pc' = "fetch"
  /\ UNCHANGED << batchNo, req, final_code, body, headIter, tailIter, ns, exc,
                  out, written, reports, jobGroupCalls, lastBound, nsAtFetch, trace,
                  raised, loopOutcome, complVars >>

Next ==
  \/ GetStatements
  \/ SplitStatements
  \/ SetJobGroup
  \/ SetJobGroupRejected
  \/ CompileStatements
  \/ ExecHead
  \/ StartTail
  \/ ExecTail
  \/ EndTail
  \/ ReportFinished
  \/ ExceptPy4J
  \/ ExceptOther
  \/ ResetOutput

Spec == Init /\ [][Next]_vars

\* The loop is a sequential program: it always takes its next step.
FairSpec == Spec /\ WF_vars(Next)

\* ------------------------------------------------- completion on its own
\* The completion engine as a function of the namespace and the prefix: the
\* request is drawn in the initial state and getCompletion is applied to it.
Instance == [k |-> "inst", n |-> 0]

OneItemList == [k |-> "list", n |-> 1]

CompletionValues(n) ==
  IF n = "obj" THEN {Unbound, Instance}
  ELSE IF n = "__name__" THEN {Unbound, [k |-> "str", n |-> 0]}
  ELSE IF n = "items" THEN {Unbound, OneItemList}
  ELSE {Unbound, IntV(1)}

CompletionGlobals ==
  {g \in [CompletionNames -> {Unbound, Instance, IntV(1), OneItemList,
                              [k |-> "str", n |-> 0]}] :
      \A n \in CompletionNames : g[n] \in CompletionValues(n)}

CompletionTexts ==
  {NoText, Text(<< >>), Text(<< "obj", "." >>), Text(<< "obj" >>),
   Text(<< "undefined_name", "." >>), Text(<< "obj", ".", "." >>),
   Text(<< "(" >>), Text(<< "self", "." >>), Text(<< "len" >>),
   Text(<< "." >>), Text(<< "items", ".", PopCall, "." >>),
   Text(<< GlobalsCall, ".", PopAlphaCall, "." >>)}

InitCompletion ==
  /\ InitLoop
  /\ cg \in CompletionGlobals
  /\ cgBefore = cg
  /\ cText \in CompletionTexts
  /\ cResult = Plain(<< >>, FALSE)
  /\ cpc = "idle"

\* completion.getCompletion(text_value) (lines 192-209).
CompletionRequest ==
  /\ cpc = "idle"
  /\ cResult' = getCompletion(cg, cText)
  /\ cg' = GlobalsAfter(cg, cText)
  /\ cpc' = "done"
  /\ UNCHANGED << cgBefore, cText, loopVars >>

NextCompletion == CompletionRequest

SpecCompletion == InitCompletion /\ [][NextCompletion]_vars

\* ------------------------------------------------------------------ claims
\* The steps of the trace that executed a unit.
UnitSteps == {i \in DOMAIN trace : trace[i].op \in {"exec", "single"}}

\* The batch is over: its outcome has been reported.
BatchDone == pc = "reset" \/ (pc = "fetch" /\ batchNo > 0)

\* Every line of the request is blank or a full-line comment.
AllSkipped(r) ==
  ~r.null /\ \A i \in DOMAIN r.statements :
                 r.statements[i].body \in {BlankBody, CommentBody}

\* C1: a name bound by a unit of an earlier batch has that value when a unit
\* of a later batch is about to run, unless a unit has rebound it since: the
\* loop itself never changes it.
C1_PersistsAcrossBatches ==
  pc \in {"head", "tail"} =>
    \A n \in Names :
      (lastBound[n].v # Unbound /\ lastBound[n].b < batchNo)
        => ns[n] = lastBound[n].v

\* C2: every fetched batch gets exactly one report; none is sent before the
\* last unit has run or failed, and one has been sent before the next fetch.
C2_ExactlyOneOutcome ==
  /\ pc \in {"split", "jobgroup", "compile", "head", "tail", "finish",
             "except"} => reports = << >>
  /\ BatchDone => Len(reports) = 1

\* C3: when unit k of a batch fails, the bindings made by the units before
\* it are still in the namespace, no unit after k is executed, and the
\* outcome is Failed.
C3_FailureKeepsHeadEffects ==
  (raised.at = "unit" /\ pc \in {"except", "reset", "fetch"}) =>
    /\ \A n \in Names : lastBound[n].b = batchNo => ns[n] = lastBound[n].v
    /\ \A i \in UnitSteps : trace[i].idx <= raised.idx
    /\ BatchDone => (Len(loopOutcome) = 1 /\ loopOutcome[1].isError)

\* C4: a Py4JJavaError raised by a unit gives a Failed outcome whose text
\* starts at the "Py4JJavaError:" marker.
C4_HostDiagnosticStartsAtMarker ==
  (BatchDone /\ raised.kind = "Py4JJavaError" /\ raised.at = "unit") =>
    /\ Len(loopOutcome) = 1
    /\ loopOutcome[1].isError
    /\ Head(loopOutcome[1].text) = "Py4JJavaError:"

\* C5: a batch of blank and comment lines only is not parsed, sets no job
\* group, executes nothing, is reported Finished with empty text, and leaves
\* the namespace as it was before the batch.
C5_NoOpBatch ==
  (BatchDone /\ AllSkipped(req)) =>
    /\ trace = << Step("report", 0) >>
    /\ jobGroupCalls = << >>
    /\ loopOutcome = << Plain(<< >>, FALSE) >>
    /\ ns = nsAtFetch

\* C6: a batch that does not parse is reported Failed, executes no unit and
\* leaves the namespace as it was before the batch.
C6_ParseErrorAborts ==
  (raised.at = "compile" /\ pc \in {"except", "reset", "fetch"}) =>
    /\ UnitSteps = {}
    /\ BatchDone => (Len(loopOutcome) = 1 /\ loopOutcome[1].isError)
    /\ ns = nsAtFetch

\* The chunks of the output stream that are value echoes.
Echoes == {i \in DOMAIN out : out[i].k = "repr"}

\* The unit was executed in single mode during this batch.
TailRan == \E i \in DOMAIN trace : trace[i].op = "single"

\* The expression statements of a unit that evaluate to a value other than
\* None (completion.getCompletion returns None).
ValueStmts(u) == {i \in DOMAIN u.body : u.body[i] = ExprX}

\* C7 (as claimed): head units echo nothing; a batch that ran its tail to
\* the end echoes exactly once when the tail is an expression statement with
\* a value other than None, and not at all when the tail is any other
\* statement.
C7_EchoOnlyForExpressionTail ==
  /\ pc \in {"split", "jobgroup", "compile", "head"} => Echoes = {}
  /\ (BatchDone /\ raised.kind = "none" /\ TailRan) =>
       LET t == body[Len(body)]
       IN Cardinality(Echoes) =
            IF ~t.compound /\ ValueStmts(t) # {} THEN 1 ELSE 0

\* C7 (amended): head units echo nothing; a unit run in single mode echoes
\* each expression statement of its own level whose value is not None, once:
\* one echo for an expression tail, none for an assignment, one per
\* expression statement of the block for a compound tail; a batch that runs
\* no unit in single mode echoes nothing.
C7_EchoPerExpressionStatement ==
  /\ pc \in {"split", "jobgroup", "compile", "head"} => Echoes = {}
  /\ \A i \in Echoes : out[i].v.k # "none"
  /\ (BatchDone /\ raised.kind = "none") =>
       Cardinality(Echoes) =
         IF TailRan THEN Cardinality(ValueStmts(body[Len(body)])) ELSE 0

C7_Witness ==
  /\ BatchDone
  /\ raised.kind = "none"
  /\ TailRan
  /\ Len(body) = 2
  /\ body[1].body = << ExprX >>
  /\ body[2].body = << ExprX >>
  /\ Cardinality(Echoes) = 1

C9_FinishedIffNoFailure ==
  BatchDone =>
    /\ Len(loopOutcome) = 1
    /\ raised.kind = "none" => loopOutcome[1] = Plain(<< >>, FALSE)
    /\ raised.kind # "none" =>
         /\ loopOutcome[1].isError
         /\ ~loopOutcome[1].json
         /\ loopOutcome[1].text # << >>

C9_Witness ==
  pc = "reset" /\ raised.at = "jobgroup" /\ Len(loopOutcome) = 1
    /\ loopOutcome[1].isError

\* The completion request of C10: no prefix, and alpha and _hidden the only
\* names bound.
C10_Request ==
  cpc = "done" /\ cText.isNone /\ BoundNames(cg) = {"alpha", "_hidden"}

\* C10 (as claimed): the request returns exactly {alpha}.
C10_HiddenFiltered == C10_Request => cResult = Json({"alpha"}, FALSE)

\* C10 (amended): the request returns {alpha, _hidden}: a name with one
\* leading underscore is kept; only names that start with two underscores,
\* such as __name__, are filtered out.
C10_OnlyDunderFiltered ==
  (cpc = "done" /\ cText.isNone
     /\ BoundNames(cg) \in {{"alpha", "_hidden"},
                            {"alpha", "_hidden", "__name__"}})
    => cResult = Json({"alpha", "_hidden"}, FALSE)

C10_Witness ==
  cpc = "done" /\ cText.isNone
    /\ BoundNames(cg) = {"alpha", "_hidden", "__name__"}
    /\ cResult.names = {"alpha", "_hidden"}

\* The names of a set that do not start with two underscores.
Public(names) == {n \in names : LeadingUnderscores(n) < 2}

\* The attribute names C11 grants a request: those of the object the prefix,
\* less one trailing '.', resolves to, and none when nothing is left of the
\* prefix to resolve.
C11_Attrs ==
  IF cText.isNone \/ cText.toks = << >> THEN {}
  ELSE IF CompletionTarget(cText.toks) = << >> THEN {}
  ELSE getMethodCompletion(cgBefore, cText).names

\* C11: the candidates reported are the global names together with the
\* attribute names of the object the prefix resolves to, less the names that
\* start with two underscores; for obj. they hold method1 and not __init__.
C11_CandidatesAreUnion ==
  cpc = "done" =>
    /\ cResult.names = Public(BoundNames(cgBefore) \cup C11_Attrs)
    /\ (cText = Text(<< "obj", "." >>) /\ cgBefore["obj"] = Instance)
         => ("method1" \in cResult.names /\ "__init__" \notin cResult.names)

\* C12: whenever no candidate is left after filtering, the report is the
\* empty text, not an encoded empty list.
C12_EmptyIsNoCompletions ==
  (cpc = "done" /\ cResult.names = {}) => cResult = Plain(<< >>, FALSE)

\* The prefixes the engine cannot resolve: the empty string, an undefined
\* name, a syntax error, a failing call.
C13_Unresolvable ==
  \/ cText \in {Text(<< >>), Text(<< "undefined_name", "." >>),
                Text(<< "obj", ".", "." >>), Text(<< "(" >>)}
  \/ cText \in {Text(<< "obj", "." >>), Text(<< "obj" >>)}
       /\ cgBefore["obj"] = Unbound
  \/ cText = Text(<< "items", ".", PopCall, "." >>)
       /\ cgBefore["items"] = Unbound

C14_Rejected == \E i \in DOMAIN jobGroupCalls : ~jobGroupCalls[i].ok

\* C14: when the host rejects the job-group association, the batch is still
\* parsed and the rejection is not what makes the batch fail.
C14_RejectionNotAFailure ==
  (BatchDone /\ C14_Rejected) =>
    /\ \E i \in DOMAIN trace : trace[i].op = "compile"
    /\ raised.at # "jobgroup"

\* C14 as the code has it: a rejected job-group association raises
\* Py4JJavaError inside the try; the batch is reported Failed with the
\* diagnostic of that error, and nothing is parsed, executed or written.
C14_RejectionFailsBatch ==
  (BatchDone /\ C14_Rejected) =>
    /\ raised = Raised("Py4JJavaError", "jobgroup", 0)
    /\ loopOutcome = << Plain(Py4JDiagnostic(HostError), TRUE) >>
    /\ reports = loopOutcome
    /\ trace = << Step("jobgroup", 0), Step("report", 0) >>
    /\ body = << >>
    /\ out = << >>

C14_Witness ==
  /\ BatchDone
  /\ jobGroupCalls = << [group |-> "job", ok |-> FALSE] >>
  /\ Len(loopOutcome) = 1
  /\ Head(loopOutcome[1].text) = "Py4JJavaError:"

\* The text of an output chunk.
C15_ChunkText(c) ==
  CASE c.k = "text" -> "hi"
    [] c.k = "nl" -> "\n"
    [] OTHER -> "repr(x)"

\* The text of an outcome holds the text of a chunk of the output.
C15_Carries(text, chunks) ==
  \E i \in DOMAIN text, j \in DOMAIN chunks : text[i] = C15_ChunkText(chunks[j])

\* C15: after every step, the chunks passed to the host are the chunks the
\* executed code has written, in the order written; once the loop has
\* reported the outcome of the batch no further chunk is delivered; and the
\* text of the outcome holds none of the output (it is empty for Finished).
C15_ForwardedAtOnce ==
  [][/\ out' = written'
     /\ (loopOutcome # << >> /\ batchNo' = batchNo) => out' = out
     /\ \A i \in DOMAIN loopOutcome' :
          /\ ~C15_Carries(loopOutcome'[i].text, out')
          /\ ~loopOutcome'[i].isError => loopOutcome'[i].text = << >>]_vars

C15_Witness ==
  /\ BatchDone
  /\ Len(out) = 4
  /\ out[1].k = "text"
  /\ out[3].k = "repr"
  /\ loopOutcome = << Plain(<< >>, FALSE) >>

\* A step of the trace that executed a unit.
C16_IsUnitStep(t) == t.op \in {"exec", "single"}

\* The unit steps of the batch, in the order taken.
C16_Steps == SelectSeq(trace, C16_IsUnitStep)

\* A step before the tail loop raised: the fields, the job group, the
\* parse or a head unit.
C16_RaisedBeforeTail ==
  \/ raised.at \in {"fields", "jobgroup", "compile"}
  \/ raised.at = "unit" /\ raised.idx < Len(body)

\* C16: the unit steps of a batch are units 1..k of the parse in order,
\* all but the last unit in statement mode and the last in interactive
\* mode, each once; and when nothing before the tail raised, the last unit
\* has run once the batch is over.
C16_HeadThenTailOnce ==
  /\ Len(C16_Steps) <= Len(body)
  /\ \A i \in DOMAIN C16_Steps :
       C16_Steps[i] = Step(IF i < Len(body) THEN "exec" ELSE "single", i)
  /\ (BatchDone /\ body # << >> /\ ~C16_RaisedBeforeTail) =>
       Len(C16_Steps) = Len(body)

\* A line whose stripped form is non-empty and does not start with '#'.
C17_Kept(l) == l.body # BlankBody /\ l.body # CommentBody

\* C17: once the filter loop has run, final_code is the sequence of the
\* lines of the request that are neither blank nor a comment, in their
\* order and with their indentation.
C17_KeptLinesUnmodified ==
  (~req.null /\ pc \notin {"fetch", "split"}) =>
    final_code = SelectSeq(req.statements, C17_Kept)

C17_Witness ==
  /\ pc = "compile"
  /\ req.statements = << Line(1, CommentBody), Line(1, ExprX) >>
  /\ final_code = << Line(1, ExprX) >>

\* C18: while a batch is parsed and its units run, sc.setJobGroup has been
\* called exactly once with the job group of the batch, as the first step of
\* the batch; a batch makes the call once when it has a kept line and never
\* when it has none.
C18_JobGroupOnceBeforeParse ==
  /\ pc \in {"compile", "head", "tail"} =>
       jobGroupCalls = << [group |-> req.jobGroup, ok |-> TRUE] >>
  /\ \A i \in DOMAIN trace :
       trace[i].op \in {"compile", "exec", "single"} =>
         i > 1 /\ trace[1].op = "jobgroup"
  /\ Len(jobGroupCalls) <= 1
  /\ (BatchDone /\ ~req.null) =>
       (Len(jobGroupCalls) = 1 <=> ~AllSkipped(req))
  /\ (BatchDone /\ req.null) => jobGroupCalls = << >>

C18_Witness ==
  /\ BatchDone
  /\ jobGroupCalls = << [group |-> req.jobGroup, ok |-> TRUE] >>
  /\ raised.kind = "none"
  /\ Len(body) = 2
  /\ Len(C16_Steps) = 2

\* C19: a completion request leaves globals() as it found it.
C19_GlobalsUntouched == cpc = "done" => cg = cgBefore

====
